---- MODULE Spec2Model ----
(***************************************************************************)
(* The attestation driver of src/attestations.py as a state machine.       *)
(*                                                                         *)
(* One process runs main(): it fetches the identity token, collects and    *)
(* validates the distributions of the packages directory, opens one        *)
(* signing session and attests each distribution in turn.  Every fatal     *)
(* condition the driver detects itself goes through die().  The file       *)
(* system, the step-summary file and the signing authority outlive the     *)
(* process, so a second run over the same directory is part of the model.  *)
(*                                                                         *)
(* Text (messages, file contents, paths as printed) is a sequence of       *)
(* string tokens; the newline character is the token NL.                   *)
(***************************************************************************)
EXTENDS Integers, Sequences, FiniteSets, TLC

VARIABLES
    fs,             \* the file system: absolute path -> node
    summary,        \* content of the GITHUB_STEP_SUMMARY file (tokens)
    stderr,         \* what this process printed to sys.stderr, one entry per print
    pc,             \* position of the process in main()
    identity,       \* main's `identity`
    dist_paths,     \* main's `dist_paths`
    idx,            \* position of the for loop in dist_paths
    attestation,    \* attest_dist's `attestation`
    session,        \* the signer of the with block: [state, id]
    msg,            \* die's argument
    exc,            \* the exception propagating, if any
    exit_code,      \* the process's exit status, -1 while it runs
    events,         \* this run's effects, in the order they happened
    fs_start,       \* the file system when this run started
    summary_start,  \* the step-summary file when this run started
    exits           \* exit status of every earlier run over this directory

vars == <<fs, summary, stderr, pc, identity, dist_paths, idx, attestation,
          session, msg, exc, exit_code, events, fs_start, summary_start, exits>>

-----------------------------------------------------------------------------
(* Bounds of the model *)

\* At most this many entries in the packages directory.
MaxEntries == 3
\* The driver is run at most this many times over the same directory.
MaxRuns == 2

-----------------------------------------------------------------------------
(* Text *)

NL == "\n"

RECURSIVE Join(_, _)
\* sep.join(ss)
Join(ss, sep) ==
    IF ss = << >> THEN << >>
    ELSE IF Len(ss) = 1 THEN ss[1]
    ELSE ss[1] \o sep \o Join(Tail(ss), sep)

\* s.replace(old, new), token by token.
Replace(s, old, new) == [k \in 1..Len(s) |-> IF s[k] = old THEN new ELSE s[k]]

-----------------------------------------------------------------------------
(* Paths and the file system *)

\* The working directory of the process and its argument sys.argv[1].
Cwd == "/work"
Argv1 == "dist"

Stems == {"a", "b"}
SdistExt == ".tar.gz"
ZipExt == ".zip"
WheelExt == ".whl"
\* Mutant: the wheels are globbed first.
GlobPatterns_WheelsFirst == <<WheelExt, SdistExt, ZipExt>>

\* The patterns of collect_dists, in the order it globs them.
GlobPatterns == <<SdistExt, ZipExt, WheelExt>>
AttestationSuffix == ".publish.attestation"

\* The file names a directory entry may have: each matches one of the
\* patterns, and two of them match the same one.
Names ==
    {<<"a", e>> : e \in {SdistExt, ZipExt, WheelExt}}
    \cup {<<s, SdistExt>> : s \in Stems}

\* A path is a directory and a file name (the name's tokens).
MkPath(d, n) == [dir |-> d, name |-> n]

\* A directory outside the packages directory, where a link may point.
StoreDir == Cwd \o "/store"

IsAbsolute(d) == d \in {Cwd, Cwd \o "/" \o Argv1, StoreDir}

\* The directory made absolute against the working directory.
Absolute(d) == IF IsAbsolute(d) THEN d ELSE Cwd \o "/" \o d

\* str(path)
PathStr(p) == <<p.dir, "/">> \o p.name

\* repr(path)
PathRepr(p) == <<"PosixPath('">> \o PathStr(p) \o <<"')">>

File(data) == [kind |-> "file", data |-> data, target |-> MkPath("", << >>)]
Dir == [kind |-> "dir", data |-> << >>, target |-> MkPath("", << >>)]
Link(t) == [kind |-> "link", data |-> << >>, target |-> t]

\* Following a symbolic link in file system f.  The links of the model
\* point at paths that are not links themselves (see Init), and the driver
\* creates none, so one step follows every chain.
Deref(f, p) ==
    IF p \in DOMAIN f /\ f[p].kind = "link" THEN f[p].target ELSE p

\* Path.resolve(): absolute, symbolic links followed, the path need not exist.
Resolve(f, p) == Deref(f, MkPath(Absolute(p.dir), p.name))

\* Path.is_file(): an existing regular file, symbolic links followed.
IsFile(f, p) ==
    LET q == Resolve(f, p) IN q \in DOMAIN f /\ f[q].kind = "file"

\* Path.exists(): symbolic links followed.
Exists(f, p) == Resolve(f, p) \in DOMAIN f

\* Mutant: the pattern is matched anywhere in the name, not at its end.
Glob_Contains(f, d, ext) ==
    {MkPath(d, q.name) : q \in {r \in DOMAIN f :
        r.dir = Absolute(d) /\ \E k \in 1..Len(r.name) : r.name[k] = ext}}

\* Path(dir).glob('*' + ext): the entries of the directory, of any kind,
\* whose name ends with ext.  Not recursive.
Glob(f, d, ext) ==
    {MkPath(d, q.name) : q \in {r \in DOMAIN f :
        r.dir = Absolute(d) /\ r.name[Len(r.name)] = ext}}

\* The orders in which a directory scan may yield the members of S.
Orderings(S) ==
    {s \in [1..Cardinality(S) -> S] :
        \A j, k \in 1..Cardinality(S) : j # k => s[j] # s[k]}

\* Path.write_text(data): creates or truncates the file.
WriteText(f, p, data) ==
    LET q == Resolve(f, p)
    IN  [r \in DOMAIN f \cup {q} |-> IF r = q THEN File(data) ELSE f[r]]

\* Mutant: the suffix replaces the file's extension (Path.with_suffix).
AttestationPath_WithSuffix(dist_path) ==
    MkPath(dist_path.dir,
           Append(SubSeq(dist_path.name, 1, Len(dist_path.name) - 1),
                  AttestationSuffix))

\* Path(f'{dist_path}.publish.attestation')
AttestationPath(dist_path) ==
    MkPath(dist_path.dir, Append(dist_path.name, AttestationSuffix))

-----------------------------------------------------------------------------
(* Messages *)

\* _ERROR_SUMMARY_MESSAGE.format(message=m)
ErrorSummaryMessage(m) ==
    <<NL, "Attestation generation failure:", NL, NL>> \o m \o
    <<NL, NL,
      "You're seeing this because the action attempted to generated PEP 740",
      NL, "attestations for its inputs, but failed to do so.", NL>>

\* _TOKEN_RETRIEVAL_FAILED_MESSAGE.format(identity_error=e)
TokenRetrievalFailedMessage(e) ==
    <<NL, "OpenID Connect token retrieval failed: ">> \o e \o
    <<NL, NL,
      "This failure occurred after a successful Trusted Publishing Flow,",
      NL, "suggesting a transient error.", NL>>

\* The message of collect_dists for the invalid paths, in list order.
InvalidDistsMessage(invalid_dists) ==
    <<"The following paths look like distributions but are not actually files: ">>
    \o Join([k \in 1..Len(invalid_dists) |-> PathStr(invalid_dists[k])], <<", ">>)

\* The message of attest_dist for a publish attestation that is already there.
ExistingAttestationMessage(dist_path, attestation_path) ==
    PathStr(dist_path) \o <<" already has a publish attestation: ">>
    \o PathStr(attestation_path)

\* Mutant: the message is printed as it is.
ErrorAnnotation_Raw(m) == <<"::error::Attestation generation failure: ">> \o m

\* The annotation die prints: newlines percent-encoded.
ErrorAnnotation(m) ==
    <<"::error::Attestation generation failure: ">> \o Replace(m, NL, "%0A")

\* debug(m)
DebugLine(m) == <<"::debug::">> \o m

\* What print(text, file=io) adds to the file: the text and a newline.
Printed(text) == text \o <<NL>>

\* The text an IdentityError may carry; it spans two lines.
IdentityErrors == {<<"malformed token:", NL, "bad header">>}

\* The interpreter's report of an exception nobody caught.
Traceback(e) == <<"Traceback (most recent call last):", NL, e>>

-----------------------------------------------------------------------------
(* The state before the first run *)

NoPath == MkPath("", << >>)
NoSession == [state |-> "none", id |-> 0]

\* What a directory entry may be: a regular file with or without a publish
\* attestation beside it, a directory, or a symbolic link.  A link points
\* at a name of the packages directory (an entry of any kind, or nothing)
\* or at a regular file kept outside it.
StoredFile == MkPath(StoreDir, <<"c", WheelExt>>)
LinkTargets == {MkPath(Cwd \o "/" \o Argv1, <<"a", SdistExt>>), StoredFile}
EntryConfigs ==
    {[kind |-> "file", att |-> b, target |-> NoPath] : b \in BOOLEAN}
    \cup {[kind |-> "dir", att |-> FALSE, target |-> NoPath]}
    \cup {[kind |-> "link", att |-> FALSE, target |-> t] : t \in LinkTargets}

\* A link points at another path, which is not a link itself.
WellFormed(E, cfg) ==
    \A e \in E : cfg[e].kind = "link" =>
        /\ cfg[e].target # MkPath(Cwd \o "/" \o Argv1, e)
        /\ (cfg[e].target.dir # StoreDir /\ cfg[e].target.name \in E)
              => cfg[cfg[e].target.name].kind # "link"

DistBytes(n) == <<"bytes of ">> \o n
EarlierAttestation == <<"attestation of an earlier step">>

InitialFs(E, cfg) ==
    LET d == Absolute(Argv1)
        entries == {MkPath(d, n) : n \in E}
        sidecars == {AttestationPath(MkPath(d, n)) : n \in {e \in E : cfg[e].att}}
        stored == {StoredFile} \cap {cfg[e].target : e \in E}
    IN  [p \in entries \cup sidecars \cup stored |->
            IF p \in sidecars THEN File(EarlierAttestation)
            ELSE IF p \in stored THEN File(DistBytes(p.name))
            ELSE CASE cfg[p.name].kind = "file" -> File(DistBytes(p.name))
                   [] cfg[p.name].kind = "dir" -> Dir
                   [] OTHER -> Link(cfg[p.name].target)]

\* The state of a process that has just started.
ProcessStart ==
    /\ stderr = << >>
    /\ pc = "start"
    /\ identity = "none"
    /\ dist_paths = << >>
    /\ idx = 0
    /\ attestation = << >>
    /\ session = NoSession
    /\ msg = << >>
    /\ exc = "none"
    /\ exit_code = -1
    /\ events = << >>

Init ==
    /\ \E E \in SUBSET Names :
        /\ Cardinality(E) <= MaxEntries
        /\ \E cfg \in [E -> EntryConfigs] :
            /\ WellFormed(E, cfg)
            /\ fs = InitialFs(E, cfg)
    /\ summary = << >>
    /\ fs_start = fs
    /\ summary_start = summary
    /\ exits = << >>
    /\ ProcessStart

-----------------------------------------------------------------------------
(* The steps of the process *)

Event(op, path) == [op |-> op, path |-> path, sess |-> session.id]
Log(op, path) == events' = Append(events, Event(op, path))

\* A call of die(m): control passes to die with msg bound to m.
Die(m) == msg' = m /\ pc' = "die_summary"

\* The token the environment issues to a run: short-lived, a new one each run.
IdentityToken(run) == "oidc-token-" \o ToString(run)

\* Mutant: the IdentityError is noted and the run goes on.
GetIdentityToken_Swallowed ==
    /\ pc = "start"
    /\ pc' = "collect"
    /\ \/ identity' = IdentityToken(Len(exits) + 1) /\ Log("token_ok", NoPath)
       \/ identity' = identity /\ Log("token_err", NoPath)
    /\ UNCHANGED <<fs, summary, stderr, dist_paths, idx, attestation, session,
                   msg, exc, exit_code, fs_start, summary_start, exits>>

\* get_identity_token(), and main's handler of its IdentityError.
GetIdentityToken ==
    /\ pc = "start"
    /\ \/ /\ identity' = IdentityToken(Len(exits) + 1)
          /\ pc' = "collect"
          /\ Log("token_ok", NoPath)
          /\ msg' = msg
       \/ \E e \in IdentityErrors :
          /\ Die(TokenRetrievalFailedMessage(e))
          /\ Log("token_err", NoPath)
          /\ identity' = identity
    /\ UNCHANGED <<fs, summary, stderr, dist_paths, idx, attestation, session,
                   exc, exit_code, fs_start, summary_start, exits>>

\* The lists collect_dists may build from file system f: the matches of
\* each pattern in scan order, the patterns in their order, each resolved.
Collected(f, packages_dir) ==
    {[k \in 1..Len(ms) |-> Resolve(f, ms[k])] :
        ms \in {a \o b \o c :
            a \in Orderings(Glob(f, packages_dir, GlobPatterns[1])),
            b \in Orderings(Glob(f, packages_dir, GlobPatterns[2])),
            c \in Orderings(Glob(f, packages_dir, GlobPatterns[3]))}}

\* Mutant: a path passes when it exists, whatever it is.
InvalidDists_ExistsOnly(f, paths) == SelectSeq(paths, LAMBDA p : ~Exists(f, p))

\* The paths of the list that are not files, in list order.
InvalidDists(f, paths) == SelectSeq(paths, LAMBDA p : ~IsFile(f, p))

\* collect_dists(packages_dir)
CollectDists ==
    /\ pc = "collect"
    /\ \E paths \in Collected(fs, Argv1) :
        /\ Log("collect", NoPath)
        /\ IF InvalidDists(fs, paths) # << >>
           THEN /\ Die(InvalidDistsMessage(InvalidDists(fs, paths)))
                /\ dist_paths' = dist_paths
           ELSE /\ dist_paths' = paths
                /\ pc' = "open"
                /\ msg' = msg
    /\ UNCHANGED <<fs, summary, stderr, identity, idx, attestation, session,
                   exc, exit_code, fs_start, summary_start, exits>>

\* with SigningContext.production().signer(identity, cache=True) as s,
\* and the debug line that opens the block.
OpenSession ==
    /\ pc = "open"
    /\ session' = [state |-> "open", id |-> session.id + 1]
    /\ stderr' = Append(stderr,
          DebugLine(<<"attesting to dists: ", "[">>
              \o Join([k \in 1..Len(dist_paths) |-> PathRepr(dist_paths[k])], <<", ">>)
              \o <<"]">>))
    /\ events' = Append(events, [op |-> "open", path |-> NoPath, sess |-> session.id + 1])
    /\ idx' = 1
    /\ pc' = "loop"
    /\ UNCHANGED <<fs, summary, identity, dist_paths, attestation, msg, exc,
                   exit_code, fs_start, summary_start, exits>>

\* for dist_path in dist_paths: the next distribution, if there is one.
ForLoop ==
    /\ pc = "loop"
    /\ idx <= Len(dist_paths)
    /\ pc' = "attest_check"
    /\ UNCHANGED <<fs, summary, stderr, identity, dist_paths, idx, attestation,
                   session, msg, exc, exit_code, events, fs_start, summary_start,
                   exits>>

\* The with block is left: its signer is released.
Release == session' = [session EXCEPT !.state = "released"] /\ Log("release", NoPath)

\* The loop is over and the with block ends normally.
ExitWith ==
    /\ pc = "loop"
    /\ idx > Len(dist_paths)
    /\ Release
    /\ pc' = "terminate"
    /\ UNCHANGED <<fs, summary, stderr, identity, dist_paths, idx, attestation,
                   msg, exc, exit_code, fs_start, summary_start, exits>>

\* Mutant: the attestation is written whether or not one is there.
AttestCheck_Unchecked ==
    /\ pc = "attest_check"
    /\ pc' = "attest_sign"
    /\ Log("exists_miss", AttestationPath(dist_paths[idx]))
    /\ UNCHANGED <<fs, summary, stderr, identity, dist_paths, idx, attestation,
                   session, msg, exc, exit_code, fs_start, summary_start, exits>>

\* attest_dist: the check for a publish attestation that is already there.
AttestCheck ==
    /\ pc = "attest_check"
    /\ LET dist_path == dist_paths[idx]
           attestation_path == AttestationPath(dist_path)
       IN  IF Exists(fs, attestation_path)
           THEN /\ Die(ExistingAttestationMessage(dist_path, attestation_path))
                /\ Log("exists_hit", attestation_path)
           ELSE /\ pc' = "attest_sign"
                /\ msg' = msg
                /\ Log("exists_miss", attestation_path)
    /\ UNCHANGED <<fs, summary, stderr, identity, dist_paths, idx, attestation,
                   session, exc, exit_code, fs_start, summary_start, exits>>

\* attestation.model_dump_json() of the attestation signed for a file.
AttestationJson(dist_path, data, token) ==
    <<"{attestation of ">> \o dist_path.name \o <<" digest of ">> \o data
    \o <<" signed as ", token, "}">>

\* An exception raised by the library: it propagates, nobody catches it.
Raise(e) == exc' = e /\ pc' = "unwind"

\* attest_dist: Distribution.from_file and Attestation.sign.  Either call
\* may raise; the signature is requested once the file has been read.
AttestSign ==
    /\ pc = "attest_sign"
    /\ LET dist_path == dist_paths[idx]
       IN  \/ /\ Raise("from_file error")
              /\ Log("from_file_err", dist_path)
              /\ attestation' = attestation
           \/ /\ Raise("signing error")
              /\ events' = events \o <<Event("sign", dist_path),
                                       Event("sign_err", dist_path)>>
              /\ attestation' = attestation
           \/ /\ attestation' = AttestationJson(dist_path, fs[dist_path].data, identity)
              /\ Log("sign", dist_path)
              /\ pc' = "attest_write"
              /\ exc' = exc
    /\ UNCHANGED <<fs, summary, stderr, identity, dist_paths, idx, session, msg,
                   exit_code, fs_start, summary_start, exits>>

\* attest_dist: attestation_path.write_text(...)
AttestWrite ==
    /\ pc = "attest_write"
    /\ fs' = WriteText(fs, AttestationPath(dist_paths[idx]), attestation)
    /\ Log("write", AttestationPath(dist_paths[idx]))
    /\ pc' = "attest_debug"
    /\ UNCHANGED <<summary, stderr, identity, dist_paths, idx, attestation,
                   session, msg, exc, exit_code, fs_start, summary_start, exits>>

\* attest_dist: the debug line; the call returns and the loop goes on.
AttestDebug ==
    /\ pc = "attest_debug"
    /\ stderr' = Append(stderr,
          DebugLine(<<"saved publish attestation: dist_path=">>
              \o PathRepr(dist_paths[idx]) \o <<" attestation_path=">>
              \o PathRepr(AttestationPath(dist_paths[idx]))))
    /\ Log("debug", dist_paths[idx])
    /\ idx' = idx + 1
    /\ pc' = "loop"
    /\ UNCHANGED <<fs, summary, identity, dist_paths, attestation, session, msg,
                   exc, exit_code, fs_start, summary_start, exits>>

\* die: the failure summary is appended to the step-summary file.
DieSummary ==
    /\ pc = "die_summary"
    /\ summary' = summary \o Printed(ErrorSummaryMessage(msg))
    /\ Log("summary", NoPath)
    /\ pc' = "die_annotate"
    /\ UNCHANGED <<fs, stderr, identity, dist_paths, idx, attestation, session,
                   msg, exc, exit_code, fs_start, summary_start, exits>>

\* die: the error annotation is printed to sys.stderr.  The code rebinds
\* msg to the escaped text, which only this print reads.
DieAnnotate ==
    /\ pc = "die_annotate"
    /\ stderr' = Append(stderr, ErrorAnnotation(msg))
    /\ Log("annotate", NoPath)
    /\ pc' = "die_exit"
    /\ UNCHANGED <<fs, summary, identity, dist_paths, idx, attestation, session,
                   msg, exc, exit_code, fs_start, summary_start, exits>>

\* die: sys.exit(1) raises SystemExit.
DieExit ==
    /\ pc = "die_exit"
    /\ Raise("SystemExit(1)")
    /\ Log("sys_exit", NoPath)
    /\ UNCHANGED <<fs, summary, stderr, identity, dist_paths, idx, attestation,
                   session, msg, exit_code, fs_start, summary_start, exits>>

\* Mutant: the signer is opened without a with block, so an exception
\* leaves it open.
Unwind_NoRelease ==
    /\ pc = "unwind"
    /\ pc' = "terminate"
    /\ UNCHANGED <<fs, summary, stderr, identity, dist_paths, idx, attestation,
                   session, msg, exc, exit_code, events, fs_start, summary_start,
                   exits>>

\* An exception leaves main: a with block it passes through releases its
\* signer.
Unwind ==
    /\ pc = "unwind"
    /\ IF session.state = "open"
       THEN Release
       ELSE UNCHANGED <<session, events>>
    /\ pc' = "terminate"
    /\ UNCHANGED <<fs, summary, stderr, identity, dist_paths, idx, attestation,
                   msg, exc, exit_code, fs_start, summary_start, exits>>

\* The status the interpreter exits with.
ExitStatus(e) == IF e = "none" THEN 0 ELSE 1

\* The interpreter ends: status 0 after main returned, status 1 for
\* SystemExit(1) and, with a traceback, for any other exception.
Terminate ==
    /\ pc = "terminate"
    /\ exit_code' = ExitStatus(exc)
    /\ stderr' = IF exc \in {"none", "SystemExit(1)"} THEN stderr
                 ELSE Append(stderr, Traceback(exc))
    /\ Log("exit", NoPath)
    /\ pc' = "exited"
    /\ UNCHANGED <<fs, summary, identity, dist_paths, idx, attestation, session,
                   msg, exc, fs_start, summary_start, exits>>

\* The driver is run again over the same directory: a new process, the
\* files as the last run left them.
Rerun ==
    /\ pc = "exited"
    /\ Len(exits) + 1 < MaxRuns
    /\ exits' = Append(exits, exit_code)
    /\ fs_start' = fs
    /\ summary_start' = summary
    /\ stderr' = << >>
    /\ pc' = "start"
    /\ identity' = "none"
    /\ dist_paths' = << >>
    /\ idx' = 0
    /\ attestation' = << >>
    /\ session' = NoSession
    /\ msg' = << >>
    /\ exc' = "none"
    /\ exit_code' = -1
    /\ events' = << >>
    /\ UNCHANGED <<fs, summary>>

Next ==
    \/ GetIdentityToken
    \/ CollectDists
    \/ OpenSession
    \/ ForLoop
    \/ ExitWith
    \/ AttestCheck
    \/ AttestSign
    \/ AttestWrite
    \/ AttestDebug
    \/ DieSummary
    \/ DieAnnotate
    \/ DieExit
    \/ Unwind
    \/ Terminate
    \/ Rerun

Spec == Init /\ [][Next]_vars

-----------------------------------------------------------------------------
(* Vocabulary of the properties *)

HasEvent(op) == \E k \in 1..Len(events) : events[k].op = op
CountEvents(op) == Cardinality({k \in 1..Len(events) : events[k].op = op})
\* The position of the first event op, 0 when there is none.
FirstEvent(op) ==
    IF HasEvent(op)
    THEN CHOOSE k \in 1..Len(events) :
            events[k].op = op /\ \A j \in 1..(k - 1) : events[j].op # op
    ELSE 0

\* The directory entries of file system f that discovery matches.
Discovered(f) == {MkPath(Argv1, q.name) : q \in {r \in DOMAIN f :
    /\ r.dir = Cwd \o "/" \o Argv1
    /\ r.name[Len(r.name)] \in {".tar.gz", ".zip", ".whl"}}}

\* The artifact an entry stands for and the sidecar the run targets for it.
ArtifactOf(f, m) == Resolve(f, m)
SidecarOf(artifact) ==
    [dir |-> artifact.dir, name |-> artifact.name \o <<".publish.attestation">>]
TargetSidecars(f) == {SidecarOf(ArtifactOf(f, m)) : m \in Discovered(f)}

\* This run was handed a failure by its environment: no identity token,
\* or a failing call of the signing library.
IdentityFailed == HasEvent("token_err")
SigningFailed == HasEvent("from_file_err") \/ HasEvent("sign_err")

\* Control is in die, or past it.
InDie == pc \in {"die_summary", "die_annotate", "die_exit"}
Failing == InDie \/ exc # "none"
Exited == pc = "exited"

\* Some discovered entry is not a regular file.
InvalidPresent == \E m \in Discovered(fs_start) : ~IsFile(fs_start, m)
\* No two discovered entries stand for the same artifact.
DistinctArtifacts ==
    \A m, o \in Discovered(fs_start) :
        m # o => ArtifactOf(fs_start, m) # ArtifactOf(fs_start, o)
\* A sidecar this run targets was there before the run.
SidecarPreExists == \E t \in TargetSidecars(fs_start) : t \in DOMAIN fs_start

\* Nothing of the signing phase has happened in this run.
NoSigningPhase ==
    /\ \A k \in 1..Len(events) :
          events[k].op \notin {"open", "exists_miss", "exists_hit",
                               "from_file_err", "sign", "sign_err", "write",
                               "debug", "release"}
    /\ session.state = "none"
    /\ pc \notin {"open", "loop", "attest_check", "attest_sign", "attest_write",
                  "attest_debug"}

-----------------------------------------------------------------------------
(* C1 *)

\* C1: if a sidecar the run targets exists before the run, and identity
\* acquisition and every signing call succeed, the run ends with status 1
\* and has created or modified no file, wherever the artifact with the
\* sidecar falls in the discovery order.
C1_AbortsBeforeAnyWrite ==
    (Exited /\ SidecarPreExists /\ ~IdentityFailed /\ ~SigningFailed)
        => (exit_code = 1 /\ fs = fs_start)

-----------------------------------------------------------------------------
(* C2 *)

\* C2: when a discovered path is not a regular file, the run writes no
\* file, never opens the signing session, never reaches attest_dist, and
\* exits 1; collect_dists ends in die.
C2_InvalidPathFailsFast ==
    InvalidPresent =>
        /\ fs = fs_start
        /\ NoSigningPhase
        /\ dist_paths = << >>
        /\ HasEvent("collect") => Failing
        /\ Exited => exit_code = 1

\* A run over a directory whose only invalid entry is discovered after a
\* valid one has exited, its identity token acquired.
C2_Witness ==
    /\ Exited
    /\ exit_code = 1
    /\ HasEvent("collect")
    /\ \E m \in Discovered(fs_start) :
          /\ ~IsFile(fs_start, m)
          /\ m.name[Len(m.name)] = ".whl"
          /\ \A o \in Discovered(fs_start) \ {m} :
                IsFile(fs_start, o) /\ o.name[Len(o.name)] = ".tar.gz"
    /\ Cardinality(Discovered(fs_start)) >= 2

-----------------------------------------------------------------------------
(* C3 *)

\* The files a run has created.
C3_Created == DOMAIN fs \ DOMAIN fs_start

\* The sidecars a successful run leaves: one beside each artifact.
C3_Expected == {SidecarOf(ArtifactOf(fs_start, m)) : m \in Discovered(fs_start)}

\* C3 as stated: over a directory whose discovered paths are all regular
\* files (as collect_dists tests them) with no sidecar, and with no failure
\* of the identity or signing calls, an exited run has status 0 and has
\* created exactly one file per input.
C3_AsStated ==
    (~InvalidPresent /\ ~SidecarPreExists /\ ~IdentityFailed /\ ~SigningFailed
     /\ Exited)
        => /\ exit_code = 0
           /\ Cardinality(C3_Created) = Cardinality(Discovered(fs_start))

\* C3, amended: over a directory whose discovered paths are all regular
\* files with no sidecar, no two of them resolving to the same file, and
\* with no failure of the identity or signing calls, the run never enters
\* a failure path and can always go on until it has exited; then its status
\* is 0 and the file system is the old one plus exactly one sidecar file
\* per input, named <resolved artifact path>.publish.attestation.
C3_OneSidecarPerInput ==
    (~InvalidPresent /\ DistinctArtifacts /\ ~SidecarPreExists
     /\ ~IdentityFailed /\ ~SigningFailed)
        => /\ ~Failing
           /\ exit_code \in {-1, 0}
           /\ ~Exited => ENABLED Next
           /\ Exited =>
                /\ exit_code = 0
                /\ DOMAIN fs = DOMAIN fs_start \cup C3_Expected
                /\ C3_Expected \cap DOMAIN fs_start = {}
                /\ Cardinality(C3_Expected) = Cardinality(Discovered(fs_start))
                /\ Cardinality(C3_Created) = Cardinality(Discovered(fs_start))
                /\ \A p \in DOMAIN fs_start : fs[p] = fs_start[p]
                /\ \A p \in C3_Expected : fs[p].kind = "file" /\ fs[p].data # << >>

\* A run over two regular files and a link to a file kept elsewhere has
\* exited with status 0, three files created.
C3_Witness ==
    /\ Exited
    /\ exit_code = 0
    /\ Cardinality(Discovered(fs_start)) = 3
    /\ Cardinality(C3_Created) = 3
    /\ \E m \in Discovered(fs_start) : ArtifactOf(fs_start, m) = StoredFile
    /\ SidecarOf(StoredFile) \in C3_Created

-----------------------------------------------------------------------------
(* C4 *)

\* C4: every run that exits with status 1 has appended a failure summary
\* to the step-summary file and printed an ::error:: annotation.
C4_EveryFailureThroughDie ==
    (Exited /\ exit_code = 1) =>
        /\ HasEvent("summary")
        /\ summary # summary_start
        /\ \E k \in 1..Len(stderr) :
              stderr[k][1] = "::error::Attestation generation failure: "

-----------------------------------------------------------------------------
(* C5 *)

\* C5: when the identity token cannot be retrieved, die is called with
\* the token-retrieval message, the directory is never scanned, the signing
\* session is never opened, no file is written and the run exits 1.
C5_IdentityFailureShortCircuits ==
    IdentityFailed =>
        /\ Failing \/ pc \in {"terminate", "exited"}
        /\ Len(msg) >= 2
        /\ msg[2] = "OpenID Connect token retrieval failed: "
        /\ ~HasEvent("collect")
        /\ dist_paths = << >>
        /\ NoSigningPhase
        /\ fs = fs_start
        /\ Exited => (exit_code = 1 /\ HasEvent("annotate"))

\* A run that got no identity token has exited, over a directory holding
\* an invalid path and a sidecar that was already there.
C5_Witness ==
    /\ Exited
    /\ IdentityFailed
    /\ InvalidPresent
    /\ SidecarPreExists

-----------------------------------------------------------------------------
(* C6 *)

PreviousRunSucceeded == Len(exits) >= 1 /\ exits[Len(exits)] = 0
IsSidecarName(n) == n[Len(n)] = ".publish.attestation"

\* C6: a run that follows a successful run over a directory with at least
\* one artifact leaves the file system as that run left it and exits 1;
\* the sidecars of the earlier run are in the directory and are not
\* discovered as artifacts.
C6_RerunAborts ==
    (PreviousRunSucceeded /\ Discovered(fs_start) # {}) =>
        /\ fs = fs_start
        /\ Exited => exit_code = 1
        /\ \A t \in TargetSidecars(fs_start) : t \in DOMAIN fs_start
        /\ \A k \in 1..Len(dist_paths) : ~IsSidecarName(dist_paths[k].name)
        /\ \A k \in 1..Len(events) : events[k].op \notin {"sign", "write"}

\* The second run has exited after acquiring its identity token, the first
\* one having attested two artifacts.
C6_Witness ==
    /\ Exited
    /\ PreviousRunSucceeded
    /\ Cardinality(Discovered(fs_start)) >= 2
    /\ HasEvent("token_ok")
    /\ HasEvent("exists_hit")

-----------------------------------------------------------------------------
(* C7 *)

\* C7: every file that existed before the run, sidecars included, is
\* unchanged; a sidecar is written only where none existed when the
\* artifact was checked, and no path is written twice in a run.
C7_WriteOnce ==
    /\ \A p \in DOMAIN fs_start : p \in DOMAIN fs /\ fs[p] = fs_start[p]
    /\ pc = "attest_write" => SidecarOf(dist_paths[idx]) \notin DOMAIN fs
    /\ \A k \in 1..Len(events) : events[k].op = "write" =>
          /\ events[k].path \notin DOMAIN fs_start
          /\ \A j \in 1..(k - 1) :
                events[j].op = "write" => events[j].path # events[k].path

\* A run has written a sidecar and then met an artifact whose sidecar
\* exists, in a directory where a sidecar was there before the run.
C7_Witness ==
    /\ Exited
    /\ HasEvent("write")
    /\ HasEvent("exists_hit")
    /\ \E p \in DOMAIN fs_start : IsSidecarName(p.name)

-----------------------------------------------------------------------------
(* C8 *)

\* C8: the signing session is opened at most once per run, only after the
\* identity token was acquired and the discovered paths validated; every
\* signature is requested from that session while it is open; the session
\* is released once the signing phase is over, however it ends; runs that
\* fail before the signing phase never open it.
C8_SessionScoped ==
    /\ CountEvents("open") <= 1
    /\ CountEvents("release") <= CountEvents("open")
    /\ HasEvent("open") =>
          /\ HasEvent("token_ok") /\ FirstEvent("token_ok") < FirstEvent("open")
          /\ HasEvent("collect") /\ FirstEvent("collect") < FirstEvent("open")
          /\ ~InvalidPresent
    /\ (session.state = "open") <=> (HasEvent("open") /\ ~HasEvent("release"))
    /\ pc \in {"loop", "attest_check", "attest_sign", "attest_write",
               "attest_debug"} => session.state = "open"
    /\ \A k \in 1..Len(events) :
          events[k].op \in {"exists_miss", "exists_hit", "sign", "write"} =>
              /\ FirstEvent("open") \in 1..(k - 1)
              /\ events[k].sess = events[FirstEvent("open")].sess
              /\ HasEvent("release") => k < FirstEvent("release")
    /\ pc \in {"terminate", "exited"} =>
          /\ session.state # "open"
          /\ CountEvents("release") = CountEvents("open")
    /\ (IdentityFailed \/ InvalidPresent) => ~HasEvent("open")

\* A run has exited after a signing call raised inside the with block for
\* its second artifact, the session released.
C8_Witness ==
    /\ Exited
    /\ HasEvent("sign_err")
    /\ HasEvent("write")
    /\ session.state = "released"

-----------------------------------------------------------------------------
(* C9 *)

\* The events of attest_dist, in the order they happened.
C9_Steps ==
    SelectSeq(events, LAMBDA e :
        e.op \in {"exists_miss", "exists_hit", "sign", "write", "debug"})

C9_Rank(n) ==
    CASE n[Len(n)] = ".tar.gz" -> 1
      [] n[Len(n)] = ".zip" -> 2
      [] n[Len(n)] = ".whl" -> 3

\* C9: the discovered list is the resolved *.tar.gz matches, then the
\* *.zip matches, then the *.whl matches; the artifacts are handled in list
\* order, each by existence check, signature request, write and debug
\* trace in that order, so that the write for one precedes the check for
\* the next; a check that finds the sidecar ends the run's signing, and no
\* signature is requested for an artifact whose sidecar exists.
C9_SequentialInOrder ==
    /\ pc = "open" =>
          \E ms \in Orderings(Discovered(fs_start)) :
              /\ \A j, k \in 1..Len(ms) :
                    j < k => C9_Rank(ms[j].name) <= C9_Rank(ms[k].name)
              /\ dist_paths = [k \in 1..Len(ms) |-> ArtifactOf(fs_start, ms[k])]
    /\ \A j \in 1..Len(C9_Steps) :
          LET k == ((j - 1) \div 4) + 1
              r == (j - 1) % 4
              e == C9_Steps[j]
          IN  /\ k <= Len(dist_paths)
              /\ r = 0 => /\ e.path = SidecarOf(dist_paths[k])
                          /\ \/ e.op = "exists_miss"
                             \/ e.op = "exists_hit" /\ j = Len(C9_Steps)
              /\ r = 1 => e.op = "sign" /\ e.path = dist_paths[k]
              /\ r = 2 => e.op = "write" /\ e.path = SidecarOf(dist_paths[k])
              /\ r = 3 => e.op = "debug" /\ e.path = dist_paths[k]
    /\ \A k \in 1..Len(events) : events[k].op = "sign" =>
          /\ SidecarOf(events[k].path) \notin DOMAIN fs_start
          /\ \A j \in 1..(k - 1) :
                ~(events[j].op = "write" /\ events[j].path = SidecarOf(events[k].path))
    /\ pc \in {"attest_check", "attest_sign", "attest_write", "attest_debug"} =>
          Len(C9_Steps) = 4 * (idx - 1) +
              (CASE pc = "attest_check" -> 0 [] pc = "attest_sign" -> 1
                 [] pc = "attest_write" -> 2 [] pc = "attest_debug" -> 3)

\* A run has attested an sdist, a zip and a wheel and exited.
C9_Witness ==
    /\ Exited
    /\ Len(C9_Steps) = 12
    /\ C9_Rank(dist_paths[1].name) = 1
    /\ C9_Rank(dist_paths[2].name) = 2
    /\ C9_Rank(dist_paths[3].name) = 3

-----------------------------------------------------------------------------
(* C10 *)

C10_IsAnnotation(line) == line[1] = "::error::Attestation generation failure: "

\* C10: the error annotation is one line, the message with every newline
\* replaced by %0A; the step-summary file gains the message as it was
\* passed, newlines kept, after what the file held; the summary is appended
\* before the annotation is printed and the annotation before the exit.
C10_AnnotationSingleLine ==
    /\ \A k \in 1..Len(stderr) : C10_IsAnnotation(stderr[k]) =>
          /\ \A j \in 1..Len(stderr[k]) : stderr[k][j] # "\n"
          /\ Len(stderr[k]) = Len(msg) + 1
          /\ \A j \in 1..Len(msg) :
                stderr[k][j + 1] = (IF msg[j] = "\n" THEN "%0A" ELSE msg[j])
    /\ HasEvent("annotate") <=> (\E k \in 1..Len(stderr) : C10_IsAnnotation(stderr[k]))
    /\ HasEvent("summary") =>
          /\ Len(summary) > Len(summary_start) + 4 + Len(msg)
          /\ SubSeq(summary, 1, Len(summary_start)) = summary_start
          /\ SubSeq(summary, Len(summary_start) + 5,
                    Len(summary_start) + 4 + Len(msg)) = msg
    /\ ~HasEvent("summary") => summary = summary_start
    /\ CountEvents("summary") <= 1 /\ CountEvents("annotate") <= 1
    /\ HasEvent("annotate") =>
          HasEvent("summary") /\ FirstEvent("summary") < FirstEvent("annotate")
    /\ HasEvent("sys_exit") =>
          HasEvent("annotate") /\ FirstEvent("annotate") < FirstEvent("sys_exit")
    /\ (InDie \/ HasEvent("sys_exit")) => exit_code = -1 \/ HasEvent("annotate")
    /\ exit_code # -1 => (HasEvent("summary") <=> HasEvent("sys_exit"))

\* A run has exited through die with a message of several lines.
C10_Witness ==
    /\ Exited
    /\ HasEvent("annotate")
    /\ \E j \in 1..Len(msg) : msg[j] = "\n"
    /\ \E j \in 1..Len(msg) : msg[j] = "malformed token:"

====
